---------------------------- MODULE Spec2Model ----------------------------
(***************************************************************************)
(* Espresso (src/main.go): the session state machine of the tray utility   *)
(* and the command serializer that runs every power-state call on one      *)
(* locked OS thread.                                                       *)
(*                                                                         *)
(* Flows of the program:                                                   *)
(*   main        main(): startExecThread, enforceSingleInstance, the       *)
(*               startup allowSleep, systray.Run (onReady, then onExit     *)
(*               once the loop has called systray.Quit)                    *)
(*   worker      the goroutine of startExecThread, ranging over            *)
(*               execStateCh                                               *)
(*   loop        the goroutine of onReady's "Main Loop" (the select)       *)
(*   forwarders  one goroutine per preset, item.ClickedCh -> controlCh     *)
(*   toast flows the goroutines spawned on expiry to show the toast        *)
(*                                                                         *)
(* Time is counted in minutes: the presets' durations are whole minutes,   *)
(* and the infinite preset's duration is the negative sentinel -1.         *)
(*                                                                         *)
(* Channels.  execStateCh and controlCh are unbuffered: a sender blocks    *)
(* until a receiver takes its value; the Go runtime keeps the blocked      *)
(* senders of a channel in a first-come first-served queue, modelled by    *)
(* the sequences execStateCh and controlCh.  A menu item's ClickedCh is    *)
(* served by the tray library with a non-blocking send: a click is         *)
(* delivered only to a goroutine that is waiting for it, otherwise it is   *)
(* dropped.  ticker.C holds at most one pending tick.                      *)
(***************************************************************************)
EXTENDS Integers, Sequences, FiniteSets

\* ------------------------------------------------------------------ bounds

\* the clock runs from 0 to MaxTime minutes
MaxTime == 3
\* menu clicks (presets, stop, about, quit) accepted in one run
MaxClicks == 3
\* concurrent callers of the serializer in the serializer's own specification
NumCallers == 3
\* the clock's resolution in formatDuration's own specification: units of
\* time.Duration in one second
Second == 4

\* --------------------------------------------------------- program constants

\* the zero time.Time of "var sessionEndTime time.Time": before every instant
ZeroTime == -1

\* var modes: name and duration (minutes; -1 is the infinite sentinel)
modes ==
  << [Name |-> "Milk",          Duration |-> 3],
     [Name |-> "Drop",          Duration |-> 10],
     [Name |-> "Latte",         Duration |-> 30],
     [Name |-> "Cappuccino",    Duration |-> 60],
     [Name |-> "Americano",     Duration |-> 180],
     [Name |-> "Espresso",      Duration |-> 360],
     [Name |-> "Lungo",         Duration |-> 480],
     [Name |-> "Doppio",        Duration |-> 720],
     [Name |-> "Pure Caffeine", Duration |-> -1] >>

\* the presets the user clicks in the model: the shortest, the next one, and
\* the infinite one
ClickedModes == {1, 2, 9}

\* ----------------------------------------------------------------- contexts

Ctx(name, n) == [name |-> name, n |-> n]
Main   == Ctx("main", 0)
Loop   == Ctx("loop", 0)
Worker == Ctx("worker", 0)
\* the callers of the serializer's own specification
HCallers == {Ctx("caller", i) : i \in 1..NumCallers}
Callers  == {Main, Loop} \cup HCallers

VARIABLES
  \* --- command serializer
  execStateCh,     \* the senders blocked on execStateCh, oldest first
  chClosed,        \* close(execStateCh) has run
  done,            \* done[c]: the done channel of c's current call is closed
  wpc,             \* worker: "off", "recv" (at the range), "run", "exited"
  wfn,             \* worker: the action received and not yet finished
  submitted,       \* history: number of actions handed to execStateCh
  execLog,         \* history: the actions executed, with the executing context
  running,         \* history: the actions begun and not yet finished
  hpc,             \* the callers of the serializer's own specification
  \* --- main
  mpc,
  \* --- event loop and session
  lpc,             \* "off", "select", "reset", "start", "toast", "exited"
  lev,             \* the event being handled
  isActive, isInfinite, sessionEndTime, currentModeName,
  mTimeLeft,       \* the countdown menu item: visible, title (<<>> is the
                   \* empty title, else formatDuration's <<h, m, s>>), and, as history,
                   \* the end time the title was computed from
  fpc,             \* forwarders: "range" or "got" or "send"
  controlCh,       \* the forwarders blocked on controlCh, oldest first
  tickC,           \* ticker.C holds a tick
  now,             \* the clock
  toastFlows,      \* detached "Espresso Finished" flows not yet shown
  \* --- history
  clicks,          \* menu clicks accepted so far
  evLog,           \* the start, stop, expiry and quit events handled to
                   \* completion, in order
  toastLog,        \* the notifications pushed, in order
  shown,           \* the countdown item has been visible at some point
  \* --- formatDuration on its own
  fmtD,            \* the span given to formatDuration
  fmtText          \* its result, <<>> before the call

serVars  == <<execStateCh, chClosed, done, wpc, wfn, submitted, execLog, running>>
sessVars == <<isActive, isInfinite, sessionEndTime, currentModeName>>
loopVars == <<lpc, lev, mTimeLeft, fpc, controlCh, tickC, toastFlows,
              clicks, evLog, toastLog, shown>>
fmtVars  == <<fmtD, fmtText>>
vars == <<serVars, hpc, mpc, sessVars, loopVars, now, fmtVars>>

NoFn == [op |-> "none", from |-> Main, id |-> 0, why |-> "none"]
NoEv == [kind |-> "none", mode |-> 0, t |-> 0, pre |-> "Decaf"]

\* ------------------------------------------------------ command serializer

\* a caller that makes the call itself instead of handing it to the worker
execDirect(c, op, why) ==
  /\ execLog' = Append(execLog, [op |-> op, id |-> submitted + 1, why |-> why,
                                 from |-> c, by |-> c])
  /\ submitted' = submitted + 1
  /\ done' = [done EXCEPT ![c] = TRUE]
  /\ UNCHANGED <<execStateCh, chClosed, wpc, wfn, running>>

\* execOnMainThread, up to the send: done is made, the wrapped action is
\* offered on execStateCh and the caller blocks.  A send on the closed
\* channel panics: the caller never returns.
execOnMainThread(c, op, why) ==
  /\ done' = [done EXCEPT ![c] = FALSE]
  /\ IF chClosed
       THEN UNCHANGED <<execStateCh, submitted>>
       ELSE /\ execStateCh' = Append(execStateCh,
                 [op |-> op, from |-> c, id |-> submitted + 1, why |-> why])
            /\ submitted' = submitted + 1
  /\ UNCHANGED <<chClosed, wpc, wfn, execLog, running>>

\* execOnMainThread, "<-done": the caller goes on once done is closed
Returned(c) == done[c]

\* a worker that serves the newest blocked sender first
WorkerRecvNewest ==
  /\ wpc = "recv"
  /\ execStateCh # <<>>
  /\ wfn' = execStateCh[Len(execStateCh)]
  /\ execStateCh' = SubSeq(execStateCh, 1, Len(execStateCh) - 1)
  /\ running' = running \cup {execStateCh[Len(execStateCh)].id}
  /\ wpc' = "run"
  /\ UNCHANGED <<chClosed, done, submitted, execLog>>
  /\ UNCHANGED <<hpc, mpc, sessVars, loopVars, now, fmtVars>>

\* a wrapped action that closes done before it calls fn
WorkerRecvCloseFirst ==
  /\ wpc = "recv"
  /\ execStateCh # <<>>
  /\ wfn' = Head(execStateCh)
  /\ execStateCh' = Tail(execStateCh)
  /\ running' = running \cup {Head(execStateCh).id}
  /\ done' = [done EXCEPT ![Head(execStateCh).from] = TRUE]
  /\ wpc' = "run"
  /\ UNCHANGED <<chClosed, submitted, execLog>>
  /\ UNCHANGED <<hpc, mpc, sessVars, loopVars, now, fmtVars>>

\* the worker's "for fn := range execStateCh": it takes the oldest blocked
\* sender's action; on the closed, empty channel the loop ends
WorkerRecv ==
  /\ wpc = "recv"
  /\ IF execStateCh # <<>>
       THEN /\ wfn' = Head(execStateCh)
            /\ execStateCh' = Tail(execStateCh)
            /\ running' = running \cup {Head(execStateCh).id}
            /\ wpc' = "run"
       ELSE /\ chClosed
            /\ wpc' = "exited"
            /\ UNCHANGED <<wfn, execStateCh, running>>
  /\ UNCHANGED <<chClosed, done, submitted, execLog>>
  /\ UNCHANGED <<hpc, mpc, sessVars, loopVars, now, fmtVars>>

\* the worker runs the wrapped action: fn(), then close(done)
WorkerExec ==
  /\ wpc = "run"
  /\ execLog' = Append(execLog, [op |-> wfn.op, id |-> wfn.id, why |-> wfn.why,
                                 from |-> wfn.from, by |-> Worker])
  /\ running' = running \ {wfn.id}
  /\ done' = [done EXCEPT ![wfn.from] = TRUE]
  /\ wfn' = NoFn
  /\ wpc' = "recv"
  /\ UNCHANGED <<execStateCh, chClosed, submitted>>
  /\ UNCHANGED <<hpc, mpc, sessVars, loopVars, now, fmtVars>>

\* startExecThread: the worker goroutine starts and locks its OS thread
startExecThread ==
  /\ mpc = "start"
  /\ wpc = "off"
  /\ wpc' = "recv"
  /\ mpc' = "instance"
  /\ UNCHANGED <<execStateCh, chClosed, done, wfn, submitted, execLog, running>>
  /\ UNCHANGED <<hpc, sessVars, loopVars, now, fmtVars>>

\* --------------------------- the serializer under N concurrent callers

\* a caller submits one action
HSubmit(c) ==
  /\ hpc[c] = "idle"
  /\ hpc' = [hpc EXCEPT ![c] = "submit"]
  /\ execOnMainThread(c, "act", "test")
  /\ UNCHANGED <<mpc, sessVars, loopVars, now, fmtVars>>

\* the caller's execOnMainThread returns
HReturn(c) ==
  /\ hpc[c] = "submit"
  /\ Returned(c)
  /\ hpc' = [hpc EXCEPT ![c] = "returned"]
  /\ UNCHANGED <<serVars, mpc, sessVars, loopVars, now, fmtVars>>

\* ------------------------------------------------------------------- main

\* enforceSingleInstance: the named mutex exists already (main returns and
\* the process ends) or it is created
enforceSingleInstance ==
  /\ mpc = "instance"
  /\ \E first \in BOOLEAN : mpc' = IF first THEN "startup" ELSE "exit"
  /\ UNCHANGED <<serVars, hpc, sessVars, loopVars, now, fmtVars>>

\* main: execOnMainThread(func() { allowSleep() }), up to the send
MainStartup ==
  /\ mpc = "startup"
  /\ execOnMainThread(Main, "allowSleep", "startup")
  /\ mpc' = "startupWait"
  /\ UNCHANGED <<hpc, sessVars, loopVars, now, fmtVars>>

\* main: the startup call returns; systray.Run calls onReady, which builds
\* the menu, starts the forwarders and starts the loop with its ticker
onReady ==
  /\ mpc = "startupWait"
  /\ Returned(Main)
  /\ mpc' = "run"
  /\ lpc' = "select"
  /\ UNCHANGED <<lev, mTimeLeft, fpc, controlCh, tickC, toastFlows,
                 clicks, evLog, toastLog, shown>>
  /\ UNCHANGED <<serVars, hpc, sessVars, now, fmtVars>>

\* an onExit that a shutdown may run while the loop is still at work
onExitUnsynchronised ==
  /\ mpc = "run"
  /\ chClosed' = TRUE
  /\ mpc' = "exit"
  /\ UNCHANGED <<execStateCh, done, wpc, wfn, submitted, execLog, running>>
  /\ UNCHANGED <<hpc, sessVars, loopVars, now, fmtVars>>

\* onExit, run by systray.Run once systray.Quit has been called
onExit ==
  /\ mpc = "run"
  /\ lpc = "exited"
  /\ chClosed' = TRUE
  /\ mpc' = "exit"
  /\ UNCHANGED <<execStateCh, done, wpc, wfn, submitted, execLog, running>>
  /\ UNCHANGED <<hpc, sessVars, loopVars, now, fmtVars>>

\* ---------------------------------------------------------------- session

\* the Session Controller's state, read off the loop's state variables
StateKind ==
  IF isActive
    THEN (IF isInfinite THEN "Active-Infinite" ELSE "Active-Timed")
    ELSE (IF isInfinite THEN "Invalid" ELSE "Decaf")

RECURSIVE FirstMatch(_, _)
\* startSession's "for _, m := range modes": the first preset of duration d
FirstMatch(d, i) ==
  IF i > Len(modes) THEN "Custom"
  ELSE IF modes[i].Duration = d THEN modes[i].Name
  ELSE FirstMatch(d, i + 1)

foundName(d) == FirstMatch(d, 1)

\* what the loop notes of an event when it takes it
Taken(kind, mode) ==
  [kind |-> kind, mode |-> mode, t |-> now, pre |-> StateKind]

\* the entry of evLog for the event the loop has finished handling
Handled(ev, post, end) ==
  [kind |-> ev.kind, mode |-> ev.mode, pre |-> ev.pre,
   post |-> post, end |-> end]

\* a resetState that clears the session without asking the serializer for
\* allowSleep()
resetStateNoCall(why) ==
  /\ isActive' = FALSE
  /\ isInfinite' = FALSE
  /\ currentModeName' = "Decaf"
  /\ UNCHANGED sessionEndTime
  /\ done' = [done EXCEPT ![Loop] = TRUE]
  /\ UNCHANGED <<execStateCh, chClosed, wpc, wfn, submitted, execLog, running>>

\* a resetState that leaves isInfinite as it was
resetStateKeepInfinite(why) ==
  /\ isActive' = FALSE
  /\ currentModeName' = "Decaf"
  /\ UNCHANGED <<isInfinite, sessionEndTime>>
  /\ execOnMainThread(Loop, "allowSleep", why)

\* resetState, up to the send of its execOnMainThread
resetState(why) ==
  /\ isActive' = FALSE
  /\ isInfinite' = FALSE
  /\ currentModeName' = "Decaf"
  /\ UNCHANGED sessionEndTime
  /\ execOnMainThread(Loop, "allowSleep", why)

\* a startSession that asks for preventSleep only when no session is active
startSessionIfInactive(d) ==
  /\ isActive' = TRUE
  /\ currentModeName' = foundName(d)
  /\ UNCHANGED <<isInfinite, sessionEndTime>>
  /\ IF isActive
       THEN /\ done' = [done EXCEPT ![Loop] = TRUE]
            /\ UNCHANGED <<execStateCh, chClosed, wpc, wfn, submitted,
                           execLog, running>>
       ELSE execOnMainThread(Loop, "preventSleep", "start")

\* startSession(d), up to the send of its execOnMainThread
startSession(d) ==
  /\ isActive' = TRUE
  /\ currentModeName' = foundName(d)
  /\ UNCHANGED <<isInfinite, sessionEndTime>>
  /\ execOnMainThread(Loop, "preventSleep", "start")

\* a startSession whose infinite branch leaves the countdown item as it is
startSessionRestNoHide(d) ==
  IF d < 0
    THEN /\ isInfinite' = TRUE
         /\ UNCHANGED <<mTimeLeft, sessionEndTime, shown>>
    ELSE /\ isInfinite' = FALSE
         /\ sessionEndTime' = now + d
         /\ mTimeLeft' = [mTimeLeft EXCEPT !.visible = TRUE]
         /\ shown' = TRUE

\* a startSession that keeps the end time of the session it replaces
startSessionRestKeepEnd(d) ==
  IF d < 0
    THEN /\ isInfinite' = TRUE
         /\ mTimeLeft' = [mTimeLeft EXCEPT !.visible = FALSE]
         /\ UNCHANGED <<sessionEndTime, shown>>
    ELSE /\ isInfinite' = FALSE
         /\ sessionEndTime' = IF sessionEndTime = ZeroTime THEN now + d
                                                           ELSE sessionEndTime
         /\ mTimeLeft' = [mTimeLeft EXCEPT !.visible = TRUE]
         /\ shown' = TRUE

\* a startSession that shows the countdown item for every session
startSessionRestShowAlways(d) ==
  /\ mTimeLeft' = [mTimeLeft EXCEPT !.visible = TRUE]
  /\ shown' = TRUE
  /\ IF d < 0
       THEN /\ isInfinite' = TRUE
            /\ UNCHANGED sessionEndTime
       ELSE /\ isInfinite' = FALSE
            /\ sessionEndTime' = now + d

\* startSession(d), after its execOnMainThread: "if d < 0 ... else ..."
startSessionRest(d) ==
  IF d < 0
    THEN /\ isInfinite' = TRUE
         /\ mTimeLeft' = [mTimeLeft EXCEPT !.visible = FALSE]
         /\ UNCHANGED <<sessionEndTime, shown>>
    ELSE /\ isInfinite' = FALSE
         /\ sessionEndTime' = now + d
         /\ mTimeLeft' = [mTimeLeft EXCEPT !.visible = TRUE]
         /\ shown' = TRUE

\* ------------------------------------------------------------- event loop

\* the loop is parked in its select: no case is ready.  Only then does the
\* tray's non-blocking send deliver a click on mInfo, mQuit or mStop.
Parked == lpc = "select" /\ ~tickC /\ controlCh = <<>>

\* case <-mInfo.ClickedCh: go showAbout()
ClickInfo ==
  /\ Parked
  /\ clicks < MaxClicks
  /\ clicks' = clicks + 1
  /\ UNCHANGED <<lpc, lev, mTimeLeft, fpc, controlCh, tickC, toastFlows,
                 evLog, toastLog, shown>>
  /\ UNCHANGED <<serVars, hpc, mpc, sessVars, now, fmtVars>>

\* a quit case without its return: the loop goes back to the select
ClickQuitNoReturn ==
  /\ Parked
  /\ clicks < MaxClicks
  /\ clicks' = clicks + 1
  /\ evLog' = Append(evLog, Handled(Taken("quit", 0), StateKind, sessionEndTime))
  /\ UNCHANGED <<lpc, lev, mTimeLeft, fpc, controlCh, tickC, toastFlows,
                 toastLog, shown>>
  /\ UNCHANGED <<serVars, hpc, mpc, sessVars, now, fmtVars>>

\* case <-mQuit.ClickedCh: systray.Quit(); return (the deferred ticker.Stop
\* runs)
ClickQuit ==
  /\ Parked
  /\ clicks < MaxClicks
  /\ clicks' = clicks + 1
  /\ lpc' = "exited"
  /\ evLog' = Append(evLog, Handled(Taken("quit", 0), StateKind, sessionEndTime))
  /\ UNCHANGED <<lev, mTimeLeft, fpc, controlCh, tickC, toastFlows,
                 toastLog, shown>>
  /\ UNCHANGED <<serVars, hpc, mpc, sessVars, now, fmtVars>>

\* a stop case that does nothing when no session is active
ClickStopIfActive ==
  /\ Parked
  /\ clicks < MaxClicks
  /\ clicks' = clicks + 1
  /\ IF isActive
       THEN /\ lev' = Taken("stop", 0)
            /\ resetState("stop")
            /\ lpc' = "reset"
            /\ UNCHANGED evLog
       ELSE /\ evLog' = Append(evLog,
                           Handled(Taken("stop", 0), StateKind, sessionEndTime))
            /\ UNCHANGED <<serVars, sessVars, lpc, lev>>
  /\ UNCHANGED <<mTimeLeft, fpc, controlCh, tickC, toastFlows, toastLog, shown>>
  /\ UNCHANGED <<hpc, mpc, now, fmtVars>>

\* case <-mStop.ClickedCh: resetState(), up to the send
ClickStop ==
  /\ Parked
  /\ clicks < MaxClicks
  /\ clicks' = clicks + 1
  /\ lev' = Taken("stop", 0)
  /\ resetState("stop")
  /\ lpc' = "reset"
  /\ UNCHANGED <<mTimeLeft, fpc, controlCh, tickC, toastFlows,
                 evLog, toastLog, shown>>
  /\ UNCHANGED <<hpc, mpc, now, fmtVars>>

\* resetState after its execOnMainThread (the icon, the titles,
\* mTimeLeft.Hide()), then what follows the call: on stop the loop calls
\* showToast itself; on expiry it spawns the flow that will
ResetDone ==
  /\ lpc = "reset"
  /\ Returned(Loop)
  /\ mTimeLeft' = [mTimeLeft EXCEPT !.visible = FALSE]
  /\ IF lev.kind = "stop"
       THEN /\ toastLog' = Append(toastLog, "Espresso Stopped")
            /\ lpc' = "toast"
            /\ UNCHANGED <<lev, toastFlows, evLog>>
       ELSE /\ toastFlows' = toastFlows + 1
            /\ evLog' = Append(evLog, Handled(lev, StateKind, sessionEndTime))
            /\ lev' = NoEv
            /\ lpc' = "select"
            /\ UNCHANGED toastLog
  /\ UNCHANGED <<fpc, controlCh, tickC, clicks, shown>>
  /\ UNCHANGED <<serVars, hpc, mpc, sessVars, now, fmtVars>>

\* the loop's own showToast returns: the event is handled
ToastDone ==
  /\ lpc = "toast"
  /\ evLog' = Append(evLog, Handled(lev, StateKind, sessionEndTime))
  /\ lev' = NoEv
  /\ lpc' = "select"
  /\ UNCHANGED <<mTimeLeft, fpc, controlCh, tickC, toastFlows, clicks,
                 toastLog, shown>>
  /\ UNCHANGED <<serVars, hpc, mpc, sessVars, now, fmtVars>>

\* a preset's forwarder, "for range item.ClickedCh": it takes a click
ClickPreset(i) ==
  /\ lpc # "off"
  /\ fpc[i] = "range"
  /\ clicks < MaxClicks
  /\ clicks' = clicks + 1
  /\ fpc' = [fpc EXCEPT ![i] = "got"]
  /\ UNCHANGED <<lpc, lev, mTimeLeft, controlCh, tickC, toastFlows,
                 evLog, toastLog, shown>>
  /\ UNCHANGED <<serVars, hpc, mpc, sessVars, now, fmtVars>>

\* the forwarder's "controlCh <- mode": it blocks on the send
ForwarderSend(i) ==
  /\ fpc[i] = "got"
  /\ fpc' = [fpc EXCEPT ![i] = "send"]
  /\ controlCh' = Append(controlCh, i)
  /\ UNCHANGED <<lpc, lev, mTimeLeft, tickC, toastFlows, clicks,
                 evLog, toastLog, shown>>
  /\ UNCHANGED <<serVars, hpc, mpc, sessVars, now, fmtVars>>

\* case m := <-controlCh: startSession(m.Duration), up to the send; the
\* forwarder goes back to its range
RecvControl ==
  /\ lpc = "select"
  /\ controlCh # <<>>
  /\ LET m == Head(controlCh) IN
       /\ controlCh' = Tail(controlCh)
       /\ fpc' = [fpc EXCEPT ![m] = "range"]
       /\ lev' = Taken("start", m)
       /\ startSession(modes[m].Duration)
  /\ lpc' = "start"
  /\ UNCHANGED <<mTimeLeft, tickC, toastFlows, clicks, evLog, toastLog, shown>>
  /\ UNCHANGED <<hpc, mpc, now, fmtVars>>

\* startSession after its execOnMainThread, then
\* showToast("<m.Name> Mode Started", ...) by the loop itself
StartDone ==
  /\ lpc = "start"
  /\ Returned(Loop)
  /\ startSessionRest(modes[lev.mode].Duration)
  /\ toastLog' = Append(toastLog, modes[lev.mode].Name \o " Mode Started")
  /\ lpc' = "toast"
  /\ UNCHANGED <<isActive, currentModeName>>
  /\ UNCHANGED <<lev, fpc, controlCh, tickC, toastFlows, clicks, evLog>>
  /\ UNCHANGED <<serVars, hpc, mpc, now, fmtVars>>

\* the ticker fires: ticker.C takes the tick unless it holds one already
TickFire ==
  /\ lpc \notin {"off", "exited"}
  /\ ~tickC
  /\ tickC' = TRUE
  /\ UNCHANGED <<lpc, lev, mTimeLeft, fpc, controlCh, toastFlows, clicks,
                 evLog, toastLog, shown>>
  /\ UNCHANGED <<serVars, hpc, mpc, sessVars, now, fmtVars>>

\* a formatDuration that cuts the fraction of a second off instead of
\* rounding
formatDurationTruncating(d) ==
  LET secs == IF d < 0 THEN -((-d) \div Second) ELSE d \div Second
      totalSeconds == IF secs < 0 THEN 0 ELSE secs
  IN  <<totalSeconds \div 3600, (totalSeconds \div 60) % 60, totalSeconds % 60>>

\* formatDuration(d), d in units of 1/Second s.  d.Round(time.Second) rounds
\* halves away from zero (r is the size of Go's d % m); int(d.Seconds())
\* cuts towards zero; the result is the three numbers that
\* Sprintf("%dh %dm %ds", h, m, s) prints.
formatDuration(d) ==
  LET r == IF d < 0 THEN (-d) % Second ELSE d % Second
      rounded == IF d < 0
                   THEN (IF 2 * r < Second THEN d + r ELSE d - Second + r)
                   ELSE (IF 2 * r < Second THEN d - r ELSE d + Second - r)
      secs == IF rounded < 0 THEN -((-rounded) \div Second)
                             ELSE rounded \div Second
      totalSeconds == IF secs < 0 THEN 0 ELSE secs
  IN  <<totalSeconds \div 3600, (totalSeconds \div 60) % 60, totalSeconds % 60>>

\* a ticker case served by a flow of its own: it takes the tick whatever
\* the loop is doing
RecvTickAnytime ==
  /\ lpc \notin {"off", "exited"}
  /\ tickC
  /\ tickC' = FALSE
  /\ IF ~isActive \/ isInfinite
       THEN UNCHANGED <<serVars, sessVars, lpc, lev, mTimeLeft>>
       ELSE LET remaining == sessionEndTime - now IN
            IF remaining <= 0
              THEN /\ lev' = Taken("expiry", 0)
                   /\ resetState("expiry")
                   /\ lpc' = "reset"
                   /\ UNCHANGED mTimeLeft
              ELSE /\ mTimeLeft' = [mTimeLeft EXCEPT
                                      !.title = formatDuration(remaining * 60 * Second),
                                      !.of = sessionEndTime]
                   /\ UNCHANGED <<serVars, sessVars, lpc, lev>>
  /\ UNCHANGED <<fpc, controlCh, toastFlows, clicks, evLog, toastLog, shown>>
  /\ UNCHANGED <<hpc, mpc, now, fmtVars>>

\* a ticker case without its "if isInfinite { continue }"
RecvTickNoInfiniteCheck ==
  /\ lpc = "select"
  /\ tickC
  /\ tickC' = FALSE
  /\ IF ~isActive
       THEN UNCHANGED <<serVars, sessVars, lpc, lev, mTimeLeft>>
       ELSE LET remaining == sessionEndTime - now IN
            IF remaining <= 0
              THEN /\ lev' = Taken("expiry", 0)
                   /\ resetState("expiry")
                   /\ lpc' = "reset"
                   /\ UNCHANGED mTimeLeft
              ELSE /\ mTimeLeft' = [mTimeLeft EXCEPT
                                      !.title = formatDuration(remaining * 60 * Second),
                                      !.of = sessionEndTime]
                   /\ UNCHANGED <<serVars, sessVars, lpc, lev>>
  /\ UNCHANGED <<fpc, controlCh, toastFlows, clicks, evLog, toastLog, shown>>
  /\ UNCHANGED <<hpc, mpc, now, fmtVars>>

\* a ticker case that only ever updates the countdown: it never resets
RecvTickNoExpiry ==
  /\ lpc = "select"
  /\ tickC
  /\ tickC' = FALSE
  /\ IF ~isActive \/ isInfinite
       THEN UNCHANGED mTimeLeft
       ELSE mTimeLeft' = [mTimeLeft EXCEPT
                            !.title = formatDuration((sessionEndTime - now) * 60 * Second),
                            !.of = sessionEndTime]
  /\ UNCHANGED <<serVars, sessVars, lpc, lev>>
  /\ UNCHANGED <<fpc, controlCh, toastFlows, clicks, evLog, toastLog, shown>>
  /\ UNCHANGED <<hpc, mpc, now, fmtVars>>

\* a ticker case without its "if !isActive { continue }"
RecvTickNoActiveCheck ==
  /\ lpc = "select"
  /\ tickC
  /\ tickC' = FALSE
  /\ IF isInfinite
       THEN UNCHANGED <<serVars, sessVars, lpc, lev, mTimeLeft>>
       ELSE LET remaining == sessionEndTime - now IN
            IF remaining <= 0
              THEN /\ lev' = Taken("expiry", 0)
                   /\ resetState("expiry")
                   /\ lpc' = "reset"
                   /\ UNCHANGED mTimeLeft
              ELSE /\ mTimeLeft' = [mTimeLeft EXCEPT !.title = formatDuration(remaining * 60 * Second),
                                                     !.of = sessionEndTime]
                   /\ UNCHANGED <<serVars, sessVars, lpc, lev>>
  /\ UNCHANGED <<fpc, controlCh, toastFlows, clicks, evLog, toastLog, shown>>
  /\ UNCHANGED <<hpc, mpc, now, fmtVars>>

\* case <-ticker.C
RecvTick ==
  /\ lpc = "select"
  /\ tickC
  /\ tickC' = FALSE
  /\ IF ~isActive \/ isInfinite
       THEN UNCHANGED <<serVars, sessVars, lpc, lev, mTimeLeft>>
       ELSE LET remaining == sessionEndTime - now IN
            IF remaining <= 0
              THEN /\ lev' = Taken("expiry", 0)
                   /\ resetState("expiry")
                   /\ lpc' = "reset"
                   /\ UNCHANGED mTimeLeft
              ELSE /\ mTimeLeft' = [mTimeLeft EXCEPT !.title = formatDuration(remaining * 60 * Second),
                                                     !.of = sessionEndTime]
                   /\ UNCHANGED <<serVars, sessVars, lpc, lev>>
  /\ UNCHANGED <<fpc, controlCh, toastFlows, clicks, evLog, toastLog, shown>>
  /\ UNCHANGED <<hpc, mpc, now, fmtVars>>

\* a detached flow of the expiry branch: showToast("Espresso Finished", ...)
FinishedToast ==
  /\ toastFlows > 0
  /\ toastFlows' = toastFlows - 1
  /\ toastLog' = Append(toastLog, "Espresso Finished")
  /\ UNCHANGED <<lpc, lev, mTimeLeft, fpc, controlCh, tickC, clicks,
                 evLog, shown>>
  /\ UNCHANGED <<serVars, hpc, mpc, sessVars, now, fmtVars>>

\* a minute passes
ClockAdvance ==
  /\ now < MaxTime
  /\ now' = now + 1
  /\ UNCHANGED <<serVars, hpc, mpc, sessVars, loopVars, fmtVars>>

\* the program at process start
InitApp ==
  /\ execStateCh = <<>>
  /\ chClosed = FALSE
  /\ done = [c \in Callers |-> FALSE]
  /\ wpc = "off"
  /\ wfn = NoFn
  /\ submitted = 0
  /\ execLog = <<>>
  /\ running = {}
  /\ hpc = [c \in HCallers |-> "idle"]
  /\ mpc = "start"
  /\ lpc = "off"
  /\ lev = NoEv
  /\ isActive = FALSE
  /\ isInfinite = FALSE
  /\ sessionEndTime = ZeroTime
  /\ currentModeName = ""
  /\ mTimeLeft = [visible |-> FALSE, title |-> <<>>, of |-> ZeroTime]
  /\ fpc = [i \in ClickedModes |-> "range"]
  /\ controlCh = <<>>
  /\ tickC = FALSE
  /\ now = 0
  /\ toastFlows = 0
  /\ clicks = 0
  /\ evLog = <<>>
  /\ toastLog = <<>>
  /\ shown = FALSE

Init ==
  /\ InitApp
  /\ fmtD = 0
  /\ fmtText = <<>>

SerNext ==
  \/ startExecThread
  \/ WorkerRecv
  \/ WorkerExec
  \/ \E c \in HCallers : HSubmit(c)
  \/ \E c \in HCallers : HReturn(c)

\* the serializer with NumCallers concurrent callers; every goroutine that
\* can run is eventually scheduled
SerSpec ==
  /\ Init /\ [][SerNext]_vars
  /\ WF_vars(startExecThread) /\ WF_vars(WorkerRecv) /\ WF_vars(WorkerExec)
  /\ \A c \in HCallers : WF_vars(HReturn(c))

Next ==
  \/ startExecThread
  \/ enforceSingleInstance
  \/ MainStartup
  \/ onReady
  \/ onExit
  \/ WorkerRecv
  \/ WorkerExec
  \/ ClickInfo
  \/ ClickQuit
  \/ ClickStop
  \/ ResetDone
  \/ ToastDone
  \/ \E i \in ClickedModes : ClickPreset(i)
  \/ \E i \in ClickedModes : ForwarderSend(i)
  \/ RecvControl
  \/ StartDone
  \/ TickFire
  \/ RecvTick
  \/ FinishedToast
  \/ ClockAdvance

Spec == Init /\ [][Next]_vars

\* the program with its clock, its ticker and its goroutines kept going:
\* time passes, the ticker fires whenever ticker.C is empty, and the loop
\* and the worker take every step they can take
LiveSpec ==
  /\ Spec
  /\ WF_vars(ClockAdvance)
  /\ WF_vars(TickFire)
  /\ WF_vars(RecvTick)
  /\ WF_vars(RecvControl)
  /\ WF_vars(WorkerRecv)
  /\ WF_vars(WorkerExec)
  /\ WF_vars(ResetDone)
  /\ WF_vars(StartDone)
  /\ WF_vars(ToastDone)

\* ------------------------------------------------ formatDuration on its own

\* the spans given to formatDuration: negative ones, zero, and the spans
\* around a minute, an hour, 3661 s and the longest preset (12 h), each with
\* every fraction of a second
FmtInputs ==
  UNION {((s - 2) * Second)..((s + 2) * Second) :
            s \in {0, 60, 3600, 3661, 43200}}

FmtInit ==
  /\ InitApp
  /\ fmtD \in FmtInputs
  /\ fmtText = <<>>

\* timeStr := formatDuration(remaining)
FormatStep ==
  /\ fmtText = <<>>
  /\ fmtText' = formatDuration(fmtD)
  /\ UNCHANGED <<serVars, hpc, mpc, sessVars, loopVars, now, fmtD>>

FmtSpec == FmtInit /\ [][FormatStep]_vars

\* ------------------------------------------------------------ properties

\* the indices of seq whose entry satisfies Test
Where(seq, Test(_)) == {i \in 1..Len(seq) : Test(seq[i])}
Count(seq, Test(_)) == Cardinality(Where(seq, Test))

\* the loop is between two events
Quiescent == lpc \in {"select", "exited"}

PowerOps == {"allowSleep", "preventSleep"}

\* C1: under N concurrent callers the serializer executes the actions in the
\* order in which they were handed to execStateCh (the i-th executed is the
\* i-th submitted, so none is executed twice or skipped), at most one action
\* is executing at a time and it is the next in submission order, every
\* submitted action is waiting, executing or executed, and a caller that has
\* returned had its action executed exactly once.
C1_SerializerFifoOnceExclusive ==
  /\ \A i \in 1..Len(execLog) : execLog[i].id = i
  /\ Cardinality(running) <= 1
  /\ running \subseteq {Len(execLog) + 1}
  /\ (wpc = "run") = (running # {})
  /\ Len(execLog) + Cardinality(running) + Len(execStateCh) = submitted
  /\ \A i \in 1..Len(execStateCh) :
       execStateCh[i].id = Len(execLog) + Cardinality(running) + i
  /\ \A c \in HCallers :
       hpc[c] = "returned" =>
         Cardinality({i \in 1..Len(execLog) : execLog[i].from = c}) = 1

\* C1 witness: one action executed, one executing and one waiting, all three
\* submitted before the first had finished being served
C1_Witness ==
  /\ Len(execLog) = 1
  /\ wpc = "run"
  /\ Len(execStateCh) = 1
  /\ \A c \in HCallers : hpc[c] = "submit"

\* C2: every allowSleep and preventSleep is executed by the worker; main and
\* the loop only hand them over
C2_PowerCallsOnWorker ==
  \A i \in 1..Len(execLog) :
    /\ execLog[i].op \in PowerOps
    /\ execLog[i].by = Worker
    /\ execLog[i].from \in {Main, Loop}

\* C2 witness: the startup call and the calls of a start, a stop and an
\* expiry have all been executed
C2_Witness ==
  {execLog[i].why : i \in 1..Len(execLog)} = {"startup", "start", "stop", "expiry"}

\* C8: a caller that has returned from execOnMainThread had its action
\* finished by the worker (executed, and no longer executing), and every
\* caller inside execOnMainThread eventually returns.
C8_SubmitSynchronous ==
  /\ [](\A c \in HCallers :
          hpc[c] = "returned" =>
            /\ \E i \in 1..Len(execLog) : execLog[i].from = c
            /\ ~(wpc = "run" /\ wfn.from = c))
  /\ \A c \in HCallers : (hpc[c] = "submit") ~> (hpc[c] = "returned")

\* C8 witness: a caller has returned while another is still blocked in
\* execOnMainThread
C8_Witness ==
  \E c, d \in HCallers :
    /\ hpc[c] = "returned"
    /\ hpc[d] = "submit"
    /\ ~done[d]


\* the duration carried by a start event
DurationOf(e) == modes[e.mode].Duration

\* the calls executed for one cause, and the events of one kind handled
Calls(why) == Where(execLog, LAMBDA x : x.why = why)
Events(kind) == Where(evLog, LAMBDA e : e.kind = kind)

\* the loop's call for the event it is handling has been executed
CallDone(kind) == IF lev.kind = kind /\ done[Loop] THEN 1 ELSE 0

\* the step in which the loop takes a tick
TakesTick == lpc = "select" /\ tickC /\ ~tickC'

\* C3: a tick taken in Active-Timed with now >= endTime starts the reset
\* (the session becomes Decaf); an expiry is only ever handled from
\* Active-Timed with the end time reached, it leaves Decaf, and in the order
\* of events it directly follows a timed start, so no second expiry follows
\* without a start in between; the allowSleep calls made for expiries and the
\* "Espresso Finished" notifications requested are one per expiry handled.
C3_ExpiryActedOnOnce ==
  /\ [](/\ lev.kind = "expiry" =>
             /\ lev.pre = "Active-Timed"
             /\ sessionEndTime <= lev.t
             /\ StateKind = "Decaf"
        /\ \A i \in Events("expiry") :
             /\ evLog[i].pre = "Active-Timed"
             /\ evLog[i].post = "Decaf"
             /\ i > 1
             /\ evLog[i - 1].kind = "start"
             /\ DurationOf(evLog[i - 1]) >= 0
        /\ \A i \in Calls("expiry") : execLog[i].op = "allowSleep"
        /\ Cardinality(Calls("expiry"))
             = Cardinality(Events("expiry")) + CallDone("expiry")
        /\ Count(toastLog, LAMBDA x : x = "Espresso Finished") + toastFlows
             = Cardinality(Events("expiry")))
  /\ [][(TakesTick /\ StateKind = "Active-Timed" /\ now >= sessionEndTime) =>
          (lpc' = "reset" /\ lev'.kind = "expiry" /\ StateKind' = "Decaf")]_vars

\* C3 witness: an expiry has been handled (one allowSleep, one notification
\* shown) and a further tick is waiting to be taken with no start since
C3_Witness ==
  /\ evLog # <<>>
  /\ evLog[Len(evLog)].kind = "expiry"
  /\ lpc = "select"
  /\ tickC
  /\ toastFlows = 0
  /\ Cardinality(Calls("expiry")) = 1

C5_StopResetsAndAllowsOnce ==
  /\ lev.kind = "stop" => StateKind = "Decaf"
  /\ \A i \in Events("stop") : evLog[i].post = "Decaf"
  /\ \A i \in Calls("stop") : execLog[i].op = "allowSleep"
  /\ Cardinality(Calls("stop")) = Cardinality(Events("stop")) + CallDone("stop")

\* C5 witness: one stop was handled in Decaf and one in an active session
C5_Witness ==
  \E i, j \in Events("stop") :
    /\ evLog[i].pre = "Decaf"
    /\ evLog[j].pre # "Decaf"
    /\ Cardinality(Calls("stop")) = 2

\* C6: the session is always Decaf, Active-Timed or Active-Infinite: never
\* infinite while inactive, never active with an empty mode name; between
\* events a timed session has an end time.
C6_SessionWellFormed ==
  /\ StateKind \in {"Decaf", "Active-Timed", "Active-Infinite"}
  /\ ~isActive => ~isInfinite
  /\ isActive => currentModeName # ""
  /\ isActive => \E i \in 1..Len(modes) : currentModeName = modes[i].Name
  /\ ~isActive => currentModeName \in {"", "Decaf"}
  /\ (Quiescent /\ StateKind = "Active-Timed") => sessionEndTime # ZeroTime

\* C6 witness: Decaf again after an infinite session
C6_Witness ==
  /\ Len(evLog) = 2
  /\ evLog[1].post = "Active-Infinite"
  /\ evLog[2].kind = "stop"
  /\ StateKind = "Decaf"
  /\ currentModeName = "Decaf"

\* from process start the infinite preset was selected, then stop, and
\* nothing else
PureCaffeineThenStop ==
  /\ Quiescent
  /\ Len(evLog) = 2
  /\ evLog[1].kind = "start" /\ DurationOf(evLog[1]) < 0
  /\ evLog[2].kind = "stop"

StatesPassed ==
  /\ evLog[1].pre = "Decaf"
  /\ evLog[1].post = "Active-Infinite"
  /\ evLog[2].pre = "Active-Infinite"
  /\ evLog[2].post = "Decaf"
  /\ StateKind = "Decaf"

OpsExecuted == [i \in 1..Len(execLog) |-> execLog[i].op]

\* C7 as claimed: in that scenario the states are Decaf, Active-Infinite,
\* Decaf, the power calls of the whole run are preventSleep then allowSleep,
\* and the countdown was never shown.
C7_TwoCallsInTotal ==
  PureCaffeineThenStop =>
    /\ StatesPassed
    /\ OpsExecuted = <<"preventSleep", "allowSleep">>
    /\ ~shown

\* C7 as amended: in that scenario the states are Decaf, Active-Infinite,
\* Decaf, the power calls of the whole run are three: the allowSleep of
\* startup, then the preventSleep of the start and the allowSleep of the
\* stop; the countdown was never shown.
C7_TwoCallsAfterStartup ==
  PureCaffeineThenStop =>
    /\ StatesPassed
    /\ OpsExecuted = <<"allowSleep", "preventSleep", "allowSleep">>
    /\ [i \in 1..Len(execLog) |-> execLog[i].why] = <<"startup", "start", "stop">>
    /\ ~shown
    /\ ~mTimeLeft.visible

\* C7 witness: the scenario has been played
C7_Witness == PureCaffeineThenStop /\ lpc = "select"

StartedTitles == {modes[i].Name \o " Mode Started" : i \in 1..Len(modes)}

\* C9: the calls made for starts are all preventSleep and exactly one per
\* start handled, and the "<name> Mode Started" notifications are, in order,
\* those of the presets started (the one of a start being handled included).
C9_StartPreventsAndNotifiesOnce ==
  /\ \A i \in Calls("start") : execLog[i].op = "preventSleep"
  /\ Cardinality(Calls("start")) = Cardinality(Events("start")) + CallDone("start")
  /\ SelectSeq(toastLog, LAMBDA x : x \in StartedTitles)
       = [i \in 1..(Cardinality(Events("start"))
                      + IF lpc = "toast" /\ lev.kind = "start" THEN 1 ELSE 0) |->
            LET starts == SelectSeq(evLog, LAMBDA e : e.kind = "start")
            IN  (IF i <= Len(starts) THEN modes[starts[i].mode].Name
                                     ELSE modes[lev.mode].Name) \o " Mode Started"]

\* C9 witness: a start was handled in Decaf and another in an active session
C9_Witness ==
  \E i, j \in Events("start") :
    /\ evLog[i].pre = "Decaf"
    /\ evLog[j].pre # "Decaf"
    /\ evLog[i].mode # evLog[j].mode
    /\ Cardinality(Calls("start")) = 2

\* C10: the step that handles quit changes no session field and hands
\* nothing to the serializer; quit is the last event handled, it leaves the
\* state it found, and once the loop has ended the session, the countdown
\* item, the events handled, the calls made and ticker.C never change again,
\* and no forwarder waiting on controlCh is served.
C10_QuitEndsLoop ==
  /\ [](\A i \in Events("quit") :
          /\ i = Len(evLog)
          /\ evLog[i].post = evLog[i].pre
          /\ lpc = "exited")
  /\ [][(lpc # "exited" /\ lpc' = "exited") =>
          UNCHANGED <<sessVars, execStateCh, submitted, execLog, done, mTimeLeft>>]_vars
  /\ [][lpc = "exited" =>
          /\ UNCHANGED <<sessVars, lpc, lev, mTimeLeft, evLog, tickC>>
          /\ UNCHANGED <<execStateCh, submitted, execLog, done>>
          /\ Len(controlCh') >= Len(controlCh)]_vars

\* C10 witness: quit was handled during a session; a preset click taken by
\* its forwarder before the quit waits on controlCh, and main has run onExit
C10_Witness ==
  /\ lpc = "exited"
  /\ mpc = "exit"
  /\ isActive
  /\ controlCh # <<>>

C12_NotificationsNeverBlockLoop ==
  /\ lpc # "toast"
  /\ (toastLog # <<>> /\ (tickC \/ controlCh # <<>>)) =>
        lpc \in {"select", "reset", "start", "exited"}

\* C13: formatDuration(r) gives three fields h, m, s with
\* h*3600 + m*60 + s = max(0, r rounded to the nearest second), h >= 0,
\* 0 <= m < 60 and 0 <= s < 60; 3661 s gives 1h 1m 1s, and a zero or
\* negative span gives 0h 0m 0s.
C13_CountdownFormat ==
  fmtText # <<>> =>
    /\ Len(fmtText) = 3
    /\ LET h == fmtText[1]
           m == fmtText[2]
           s == fmtText[3]
           q == fmtD \div Second
       IN  /\ h >= 0 /\ m >= 0 /\ m < 60 /\ s >= 0 /\ s < 60
           /\ \E n \in (q - 1)..(q + 1) :
                /\ 2 * n * Second - 2 * fmtD <= Second
                /\ 2 * fmtD - 2 * n * Second <= Second
                /\ h * 3600 + m * 60 + s = IF n > 0 THEN n ELSE 0
    /\ fmtD = 3661 * Second => fmtText = <<1, 1, 1>>
    /\ fmtD <= 0 => fmtText = <<0, 0, 0>>

\* a span that is rounded up into the next minute has been formatted
C13_Witness ==
  /\ fmtText = <<0, 1, 0>>
  /\ fmtD < 60 * Second

\* the calls of the loop that the serializer holds: offered on execStateCh
\* or being run by the worker
LoopCallsOpen ==
  Count(execStateCh, LAMBDA f : f.from = Loop)
    + (IF wpc = "run" /\ wfn.from = Loop THEN 1 ELSE 0)

\* the step takes an event: a tick, a forwarded click, a stop or a quit
AcceptsEvent ==
  \/ tickC /\ ~tickC'
  \/ Len(controlCh') < Len(controlCh)
  \/ Len(evLog') > Len(evLog) /\ evLog'[Len(evLog')].kind = "quit"
  \/ lev' # lev /\ lev' # NoEv

\* C14: dispatch is strictly sequential.  At most one handler is in
\* progress and at most one call of the loop is open; when the loop is at
\* its select no handler and no call of the loop is left over; an event is
\* accepted only at the select; a handler keeps its event until it has
\* finished, and leaves its Power Gate call only once that call has been
\* executed; the session fields are written only by steps of the loop's
\* handlers.
C14_DispatchSequential ==
  /\ [](/\ LoopCallsOpen <= 1
        /\ (lpc = "select" => lev = NoEv /\ LoopCallsOpen = 0)
        /\ (lpc \in {"reset", "start", "toast"} => lev # NoEv)
        /\ (lpc = "toast" => LoopCallsOpen = 0))
  /\ [][/\ AcceptsEvent => lpc = "select" /\ lev = NoEv /\ LoopCallsOpen = 0
        /\ (lpc \in {"reset", "start", "toast"} /\ lpc' # lpc) =>
              /\ LoopCallsOpen = 0
              /\ lpc \in {"reset", "start"} => done[Loop]
              /\ lev' = lev \/ (lev' = NoEv /\ lpc' = "select")
        /\ (lpc \in {"reset", "start", "toast"} /\ lpc' = lpc) => lev' = lev
        /\ sessVars' # sessVars =>
              \/ lpc = "select" /\ lpc' \in {"reset", "start"}
              \/ lpc = "start" /\ lpc' = "toast"]_vars

\* the stop handler is waiting for its allowSleep() while a tick that
\* would find the session expired waits in ticker.C
C14_Witness ==
  /\ lpc = "reset"
  /\ lev.kind = "stop"
  /\ lev.pre = "Active-Timed"
  /\ now >= sessionEndTime
  /\ tickC
  /\ LoopCallsOpen = 1

\* C15: a tick that does not detect expiry (taken in Decaf, in
\* Active-Infinite, or in Active-Timed with now < sessionEndTime) leaves
\* isActive, isInfinite, sessionEndTime and currentModeName as they were,
\* asks nothing of the serializer and starts no handler; in Decaf and
\* Active-Infinite it also leaves the countdown item alone and pushes no
\* notification.
C15_IdleTickNoEffect ==
  [][(TakesTick /\ ~(StateKind = "Active-Timed" /\ now >= sessionEndTime)) =>
        /\ UNCHANGED <<sessVars, serVars, lpc, lev, evLog>>
        /\ StateKind # "Active-Timed" =>
              UNCHANGED <<mTimeLeft, toastLog, toastFlows, shown>>]_vars

\* a tick has been handled in a timed session before its end (the countdown
\* shows the time left of this session), and the session is as it was
C15_Witness ==
  /\ lpc = "select"
  /\ ~tickC
  /\ StateKind = "Active-Timed"
  /\ now < sessionEndTime
  /\ mTimeLeft.visible
  /\ mTimeLeft.of = sessionEndTime
  /\ mTimeLeft.title = formatDuration((sessionEndTime - now) * 60 * Second)

\* C16: whenever the loop is between two events the countdown item is
\* visible exactly when the session is Active-Timed; and the countdown text
\* is written only by a tick taken in Active-Timed before the end time, so
\* none is written after a reset until a timed session has been started.
C16_CountdownVisibleIffTimed ==
  /\ [](Quiescent => (mTimeLeft.visible <=> StateKind = "Active-Timed"))
  /\ [][<<mTimeLeft.title, mTimeLeft.of>>' # <<mTimeLeft.title, mTimeLeft.of>> =>
          /\ TakesTick
          /\ StateKind = "Active-Timed"
          /\ now < sessionEndTime
          /\ mTimeLeft.visible]_vars

\* a timed session whose countdown had been written was replaced by an
\* infinite one: the item is hidden
C16_Witness ==
  /\ lpc = "select"
  /\ StateKind = "Active-Infinite"
  /\ ~mTimeLeft.visible
  /\ mTimeLeft.title # <<>>
  /\ evLog # <<>>
  /\ evLog[Len(evLog)].kind = "start"
  /\ evLog[Len(evLog)].pre = "Active-Timed"

\* C17: whenever the loop is between two events, and so when quit is
\* handled and after it, isActive holds exactly if the Power Gate request
\* executed last, the startup allowSleep() included, was preventSleep().
C17_ActiveTracksLastPowerCall ==
  Quiescent =>
    /\ execLog # <<>>
    /\ execLog[Len(execLog)].op \in PowerOps
    /\ isActive <=> execLog[Len(execLog)].op = "preventSleep"

\* quit was handled during a session that followed an ended one: the loop
\* has returned, the session is active and no allowSleep() came after the
\* last preventSleep()
C17_Witness ==
  /\ lpc = "exited"
  /\ isActive
  /\ Len(execLog) >= 4

\* C18: a timed session always ends.  From the select in Active-Timed, with
\* n events handled so far and an end time the clock reaches, the loop
\* comes to handle a further event: a start, a stop or a quit, or else the
\* expiry of this session, after which the session is Decaf and the
\* expiry's allowSleep() has been executed.
C18_TimedSessionEnds ==
  \A n \in 0..(MaxClicks + MaxTime) :
    (/\ lpc = "select"
     /\ StateKind = "Active-Timed"
     /\ sessionEndTime <= MaxTime
     /\ Len(evLog) = n)
    ~> (/\ Len(evLog) > n
        /\ evLog[n + 1].kind = "expiry" =>
              /\ evLog[n + 1].post = "Decaf"
              /\ \E i \in 1..Len(execLog) :
                    /\ execLog[i].op = "allowSleep"
                    /\ execLog[i].why = "expiry")

\* the session expired with every click still to come: nothing but the
\* clock and the ticker ended it
C18_Witness ==
  /\ lpc = "select"
  /\ StateKind = "Decaf"
  /\ evLog # <<>>
  /\ evLog[Len(evLog)].kind = "expiry"
  /\ evLog[Len(evLog)].pre = "Active-Timed"
  /\ execLog[Len(execLog)].why = "expiry"
  /\ clicks = 1

\* C19, as stated: events are dispatched in their order of arrival.  A stop
\* or quit click is taken by the loop in the step in which it arrives, so
\* when the loop takes one, no preset click that arrived earlier is still
\* on its way through its forwarder; and the loop does not leave with a
\* preset click undispatched.  The source gives no such order: a forwarder
\* that has received its click and has not yet executed "controlCh <- mode"
\* is overtaken by a later click on mStop or mQuit.
C19_DispatchInArrivalOrder ==
  [][((lev' # lev /\ lev'.kind = "stop") \/ (lpc # "exited" /\ lpc' = "exited")) =>
        \A i \in ClickedModes : fpc[i] = "range"]_vars

\* C20, as stated: whenever the countdown item is visible its text is not
\* the empty text it was created with, and was computed from the current
\* session's end time.  The source shows the item in startSession without
\* writing its text; the text is written by the next tick only.
C20_CountdownOfCurrentSession ==
  mTimeLeft.visible =>
    /\ mTimeLeft.title # <<>>
    /\ mTimeLeft.of = sessionEndTime

=============================================================================
